---- MODULE Spec2Model ----
(***************************************************************************)
(* Model of fmriprep/utils/transforms.py: the transform-chain loader       *)
(* (load_transforms, load_ants_h5) and the composite HDF5 parser           *)
(* (parse_combined_hdf5).                                                  *)
(*                                                                         *)
(* Points are integer 3-vectors, affines are 4x4 integer matrices, and the *)
(* displacement grid is scaled down from 193 x 229 x 193 to                *)
(* GridX x GridY x GridZ.  numpy arrays are records [shape, at] whose `at` *)
(* maps 0-based index tuples to values.                                    *)
(***************************************************************************)
EXTENDS Integers, Sequences, FiniteSets, TLC

VARIABLES
    xfm_paths,   \* load_transforms: the caller's list of paths
    inverse,     \* load_transforms: the caller's list of flags (one list object)
    inverse0,    \* the content of `inverse` when the call was made
    pc,          \* "idle", "loop" (inside the for loop) or "done"
    todo,        \* the (path, inv) pairs the loop has still to process
    chain,       \* the local variable `chain`
    result,      \* outcome of the last load_transforms call
    loads,       \* files handed to a loader by the current call, in order
    leaked,      \* HDF5 handles opened by the current call that are still open
    prev,        \* outcome of the call before, kept for a repeated call
    h5_fn,       \* parse_combined_hdf5: the container read by the last direct call
    parsed,      \* parse_combined_hdf5: outcome of the last direct call
    handle,      \* parse_combined_hdf5: state of the handle that call opened
    calls,       \* two calls of load_transforms in progress: their frames
    heap,        \* the list objects those calls were given as `inverse`
    heap0,       \* the content of those list objects when the calls were made
    asked_ras,   \* parse_combined_hdf5: the to_ras argument of the last direct call
    sel          \* _select_template: the frame of the call and the queries it made

vars == <<xfm_paths, inverse, inverse0, pc, todo, chain, result, loads, leaked,
          prev, h5_fn, parsed, handle, calls, heap, heap0, asked_ras, sel>>

\* the state of the two concurrent calls
concurrent == <<calls, heap, heap0>>

\* the state of a call of _select_template
selecting == <<sel>>

\* the state of the calls made one at a time
sequential == <<xfm_paths, inverse, inverse0, pc, todo, chain, result, loads, leaked,
                prev, h5_fn, parsed, handle, asked_ras>>

----------------------------------------------------------------------------
(* Bounds of the model *)

GridX == 2
GridY == 3
GridZ == 2
MaxPaths == 2
MaxInverse == 3

----------------------------------------------------------------------------
(* Small numeric helpers *)

Abs(n) == IF n < 0 THEN -n ELSE n

RECURSIVE Product(_)
Product(s) == IF s = <<>> THEN 1 ELSE Head(s) * Product(Tail(s))

Repeat(s, n) == [i \in 1..(Len(s) * n) |-> s[((i - 1) % Len(s)) + 1]]

Reverse(s) == [i \in 1..Len(s) |-> s[Len(s) + 1 - i]]

None == [kind |-> "None"]

----------------------------------------------------------------------------
(* numpy arrays of rank 4 *)

Indices(shape) ==
    (0..(shape[1] - 1)) \X (0..(shape[2] - 1)) \X (0..(shape[3] - 1)) \X (0..(shape[4] - 1))

\* a reshape that takes what it needs from a vector that is long enough
CanReshapeFrom(flat, shape) == Len(flat) >= Product(shape)

\* ndarray.reshape on a flat vector, C order; defined when the sizes agree
CanReshape(flat, shape) == Len(flat) = Product(shape)

Reshape(flat, shape) ==
    [shape |-> shape,
     at |-> [ix \in Indices(shape) |->
               flat[((ix[1] * shape[2] + ix[2]) * shape[3] + ix[3]) * shape[4] + ix[4] + 1]]]

\* ndarray.transpose(axes): axis a of the result is axis axes[a] of the operand
Transpose(arr, axes) ==
    LET newshape == [a \in 1..4 |-> arr.shape[axes[a] + 1]]
        old(ix) == [m \in 1..4 |-> ix[CHOOSE a \in 1..4 : axes[a] = m - 1]]
    IN  [shape |-> newshape,
         at |-> [ix \in Indices(newshape) |-> arr.at[old(ix)]]]

\* arr *= mask, the mask broadcast along the last axis
MulLastAxis(arr, mask) ==
    [shape |-> arr.shape,
     at |-> [ix \in Indices(arr.shape) |-> arr.at[ix] * mask[ix[4] + 1]]]

\* a comparison that stops at the end of the shorter vector
ArrayEqualCommonPrefix(a, b) ==
    \A i \in 1..(IF Len(a) < Len(b) THEN Len(a) ELSE Len(b)) : a[i] = b[i]

\* np.array_equal on two vectors
ArrayEqual(a, b) == Len(a) = Len(b) /\ \A i \in 1..Len(a) : a[i] = b[i]

----------------------------------------------------------------------------
(* 4x4 homogeneous matrices *)

Translation(t) ==
    << <<1, 0, 0, t[1]>>, <<0, 1, 0, t[2]>>, <<0, 0, 1, t[3]>>, <<0, 0, 0, 1>> >>

\* matrix applied to the homogeneous point (p, 1)
MatVec(m, p) ==
    [r \in 1..3 |-> m[r][1] * p[1] + m[r][2] * p[2] + m[r][3] * p[3] + m[r][4]]

Det3(m) ==
      m[1][1] * (m[2][2] * m[3][3] - m[2][3] * m[3][2])
    - m[1][2] * (m[2][1] * m[3][3] - m[2][3] * m[3][1])
    + m[1][3] * (m[2][1] * m[3][2] - m[2][2] * m[3][1])

\* cofactor of entry (r, c) of the 3x3 linear part
Cofactor(m, r, c) ==
    LET rs == IF r = 1 THEN <<2, 3>> ELSE IF r = 2 THEN <<1, 3>> ELSE <<1, 2>>
        cs == IF c = 1 THEN <<2, 3>> ELSE IF c = 2 THEN <<1, 3>> ELSE <<1, 2>>
        minor == m[rs[1]][cs[1]] * m[rs[2]][cs[2]] - m[rs[1]][cs[2]] * m[rs[2]][cs[1]]
    IN  IF (r + c) % 2 = 0 THEN minor ELSE -minor

\* inverse of an affine whose linear part has determinant 1 or -1
MatInverse(m) ==
    LET d == Det3(m)
        li == [r \in 1..3 |-> [c \in 1..3 |-> Cofactor(m, c, r) * d]]
        ti == [r \in 1..3 |->
                 -(li[r][1] * m[1][4] + li[r][2] * m[2][4] + li[r][3] * m[3][4])]
    IN  << <<li[1][1], li[1][2], li[1][3], ti[1]>>,
           <<li[2][1], li[2][2], li[2][3], ti[2]>>,
           <<li[3][1], li[3][2], li[3][3], ti[3]>>,
           <<0, 0, 0, 1>> >>

MatMul(a, b) ==
    [r \in 1..4 |-> [c \in 1..4 |->
        a[r][1] * b[1][c] + a[r][2] * b[2][c] + a[r][3] * b[3][c] + a[r][4] * b[4][c]]]

\* change of basis between the LPS convention of ITK files and RAS
LPS == << <<-1, 0, 0, 0>>, <<0, -1, 0, 0>>, <<0, 0, 1, 0>>, <<0, 0, 0, 1>> >>

\* ITKLinearTransform.to_ras(): the stored LPS matrix expressed in RAS
ToRas(m) == MatMul(LPS, MatMul(m, LPS))

----------------------------------------------------------------------------
(* parse_combined_hdf5 *)

DISPLACEMENT_TYPE == "DisplacementFieldTransform_float_3_3"

FIXED_PARAMS ==
    <<GridX, GridY, GridZ,
      96, 132, -78,
      1, 1, 1,
      -1, 0, 0,
      0, -1, 0,
      0, 0, 1>>

\* reshape((193, 229, 193, 3)): the flat vector is in (Z, Y, X, component) order
WarpShape == <<GridZ, GridY, GridX, 3>>

\* the axes left as stored
WarpAxesAsStored == <<0, 1, 2, 3>>

\* transpose(2, 1, 0, 3)
WarpAxes == <<2, 1, 0, 3>>

\* a mask that negates every component
SignMaskAll == <<-1, -1, -1>>

\* np.array([-1, -1, 1])
SignMask == <<-1, -1, 1>>

\* a test of the family of the type only
TypeAcceptedByFamily(t) ==
    t \in {DISPLACEMENT_TYPE, "DisplacementFieldTransform_double_3_3"}

\* line 64: the declared type of transform "2" is the supported one
TypeAccepted(t) == t = DISPLACEMENT_TYPE

\* a grid placed at the negated origin
WarpAffineNegatedOrigin ==
    << <<1, 0, 0, -96>>,
       <<0, 1, 0, -132>>,
       <<0, 0, 1, 78>>,
       <<0, 0, 0, 1>> >>

WARP_AFFINE ==
    << <<1, 0, 0, -96>>,
       <<0, 1, 0, -132>>,
       <<0, 0, 1, -78>>,
       <<0, 0, 0, 1>> >>

\* h['TransformGroup'][key]: the group's entries are [key, type] in key order
HasKey(h, key) == \E i \in 1..Len(h.entries) : h.entries[i].key = key

TransformType(h, key) ==
    h.entries[CHOOSE i \in 1..Len(h.entries) : h.entries[i].key = key].type

Raise(type, msg) == [kind |-> "raise", type |-> type, msg |-> msg]

\* a message that names the offending entry only
UnknownTypeMsgEntry2(h) ==
    <<"Unknown transform type [2]", <<"2", TransformType(h, "2")>> >>

\* message of the unsupported-type error: a header, then one line per entry
UnknownTypeMsg(h) ==
    <<"Unknown transform type [2]">> \o
    [i \in 1..Len(h.entries) |-> <<h.entries[i].key, h.entries[i].type>>]

UnexpectedFixedMsg(h) ==
    <<"Unexpected fixed parameters", <<"Expected", FIXED_PARAMS>>, <<"Found", h.fixed>>>>

\* lines 74-76
WarpOf(h) ==
    MulLastAxis(Transpose(Reshape(h.params, WarpShape), WarpAxes), SignMask)

\* an affine left in the stored convention when to_ras is false
AffineAsAsked(h, to_ras) ==
    IF to_ras THEN ToRas(h.linear.matrix) ELSE h.linear.matrix

\* line 61: affine = xform[0].to_ras(), whatever to_ras is
AffineOf(h, to_ras) == ToRas(h.linear.matrix)

\* a parser that compares the fixed parameters before it looks at the type
parse_fixed_first(f, to_ras) ==
    IF f.fmt # "h5"
    THEN [out |-> Raise("OSError", <<"Unable to open file">>),
          events |-> <<>>, opened |-> FALSE]
    ELSE LET h == f.h5 IN
    IF ~h.linear.ok
    THEN [out |-> Raise("TransformFileError", <<"linear part">>),
          events |-> <<"open", "decode">>, opened |-> TRUE]
    ELSE IF ~HasKey(h, "2")
    THEN [out |-> Raise("KeyError", <<"2">>),
          events |-> <<"open", "decode">>, opened |-> TRUE]
    ELSE IF ~ArrayEqual(h.fixed, FIXED_PARAMS)
    THEN [out |-> Raise("ValueError", UnexpectedFixedMsg(h)),
          events |-> <<"open", "decode", "fixed">>, opened |-> TRUE]
    ELSE IF ~TypeAccepted(TransformType(h, "2"))
    THEN [out |-> Raise("ValueError", UnknownTypeMsg(h)),
          events |-> <<"open", "decode", "fixed", "type">>, opened |-> TRUE]
    ELSE IF ~CanReshape(h.params, WarpShape)
    THEN [out |-> Raise("ValueError", <<"cannot reshape array">>),
          events |-> <<"open", "decode", "fixed", "type", "params">>, opened |-> TRUE]
    ELSE [out |-> [kind |-> "return",
                   affine |-> AffineOf(h, to_ras),
                   warp |-> WarpOf(h),
                   warp_affine |-> WARP_AFFINE],
          events |-> <<"open", "decode", "fixed", "type", "params">>, opened |-> TRUE]

\* The outcome of parse_combined_hdf5 on the file content f, with the file
\* operations it performed (events) and whether it opened a handle.
parse_combined_hdf5(f, to_ras) ==
    IF f.fmt # "h5"
    THEN [out |-> Raise("OSError", <<"Unable to open file">>),
          events |-> <<>>, opened |-> FALSE]
    ELSE LET h == f.h5 IN
    IF ~h.linear.ok
    THEN [out |-> Raise("TransformFileError", <<"linear part">>),
          events |-> <<"open", "decode">>, opened |-> TRUE]
    ELSE IF ~HasKey(h, "2")
    THEN [out |-> Raise("KeyError", <<"2">>),
          events |-> <<"open", "decode">>, opened |-> TRUE]
    ELSE IF ~TypeAccepted(TransformType(h, "2"))
    THEN [out |-> Raise("ValueError", UnknownTypeMsg(h)),
          events |-> <<"open", "decode", "type">>, opened |-> TRUE]
    ELSE IF ~ArrayEqual(h.fixed, FIXED_PARAMS)
    THEN [out |-> Raise("ValueError", UnexpectedFixedMsg(h)),
          events |-> <<"open", "decode", "type", "fixed">>, opened |-> TRUE]
    ELSE IF ~CanReshape(h.params, WarpShape)
    THEN [out |-> Raise("ValueError", <<"cannot reshape array">>),
          events |-> <<"open", "decode", "type", "fixed", "params">>, opened |-> TRUE]
    ELSE [out |-> [kind |-> "return",
                   affine |-> AffineOf(h, to_ras),
                   warp |-> WarpOf(h),
                   warp_affine |-> WARP_AFFINE],
          events |-> <<"open", "decode", "type", "fixed", "params">>, opened |-> TRUE]

\* The handle h = h5py.File(h5_fn) is never closed by the function.  When the
\* function raises, the traceback keeps the frame and so the handle alive; when
\* it returns, the handle is unreferenced and whether it is finalized at once
\* depends on the interpreter's memory management.
HandleAfter(r) ==
    IF ~r.opened THEN {"none"}
    ELSE IF r.out.kind = "raise" THEN {"open"}
    ELSE {"open", "finalized"}

----------------------------------------------------------------------------
(* Files: the containers and linear transform files the calls are run on *)

OtherTypes ==
    {"DisplacementFieldTransform_double_3_3", "AffineTransform_float_3_3",
     "BSplineTransform_float_3_3"}

Entry(k, t) == [key |-> k, type |-> t]

\* the entries of a TransformGroup whose entry "2" has type t2
EntryLists(t2) ==
    { <<Entry("0", "CompositeTransform_double_3_3"),
        Entry("1", "AffineTransform_float_3_3"), Entry("2", t2)>>,
      <<Entry("0", "CompositeTransform_double_3_3"),
        Entry("1", "BSplineTransform_float_3_3"), Entry("2", t2),
        Entry("3", DISPLACEMENT_TYPE)>> }

NoEntry2 ==
    <<Entry("0", "CompositeTransform_double_3_3"),
      Entry("1", "AffineTransform_float_3_3")>>

\* a stored parameter vector of n values, all of different magnitude, of both signs
Stored(seed, n) ==
    [i \in 1..n |-> IF i % 2 = 0 THEN -(seed + i) ELSE seed + i]

NumParams == Product(WarpShape)

ParamVectors ==
    {Stored(s, NumParams) : s \in {0, 100}}
    \cup {Stored(0, NumParams - 1), Stored(0, NumParams + 3), <<>>}

\* the reference vector with element i changed by d
Altered(i, d) == [FIXED_PARAMS EXCEPT ![i] = @ + d]

FixedVectors ==
    {FIXED_PARAMS}
    \cup {Altered(i, d) : i \in 1..Len(FIXED_PARAMS), d \in {-1, 1}}
    \cup {SubSeq(FIXED_PARAMS, 1, Len(FIXED_PARAMS) - 1), FIXED_PARAMS \o <<0>>}

\* stored (LPS) linear parts: a quarter turn about z followed by a shift
QuarterTurn ==
    << <<0, -1, 0, 2>>, <<1, 0, 0, 0>>, <<0, 0, 1, 5>>, <<0, 0, 0, 1>> >>

LinearParts ==
    {[ok |-> TRUE, matrix |-> QuarterTurn],
     [ok |-> FALSE, matrix |-> Translation(<<0, 0, 0>>)]}

Container(l, e, fx, p) == [linear |-> l, entries |-> e, fixed |-> fx, params |-> p]

Containers ==
    {Container(l, e, fx, p) :
        l \in LinearParts,
        e \in EntryLists(DISPLACEMENT_TYPE)
              \cup UNION {EntryLists(t) : t \in OtherTypes} \cup {NoEntry2},
        fx \in FixedVectors,
        p \in ParamVectors}

H5File(h) == [fmt |-> "h5", h5 |-> h]

TextFile(m) == [fmt |-> "itk", matrix |-> m]

Absent == [fmt |-> "absent"]

----------------------------------------------------------------------------
(* Transform objects *)

Affine(m) == [kind |-> "Affine", matrix |-> m]

DenseFieldTransform(warp, warp_affine) ==
    [kind |-> "DenseField", field |-> warp, affine |-> warp_affine]

TransformChain(ts) == [kind |-> "Chain", transforms |-> ts]

\* nt.base.TransformBase(): the identity
TransformBase == [kind |-> "Base"]

Return(v) == [kind |-> "return", value |-> v]

\* the components of a transform, in the order in which they are applied
AsChain(t) == IF t.kind = "Chain" THEN t.transforms ELSE <<t>>

\* the new transform put in front of the chain
ChainPrepend(c, xfm) == TransformChain(AsChain(xfm) \o AsChain(c))

\* chain += xfm
ChainAdd(c, xfm) == TransformChain(AsChain(c) \o AsChain(xfm))

\* an inversion that leaves alone what it cannot invert
InvertOrLeave(xfm) ==
    IF xfm.kind = "Affine"
    THEN Return(Affine(MatInverse(xfm.matrix)))
    ELSE Return(xfm)

\* an inversion that takes a chain stage by stage, the last stage first
InvertStagewise(xfm) ==
    IF xfm.kind = "Affine"
    THEN Return(Affine(MatInverse(xfm.matrix)))
    ELSE IF xfm.kind = "Chain"
    THEN Return(TransformChain(
             [i \in 1..Len(xfm.transforms) |->
                 LET t == xfm.transforms[Len(xfm.transforms) + 1 - i]
                 IN  IF t.kind = "Affine" THEN Affine(MatInverse(t.matrix)) ELSE t]))
    ELSE Raise("TypeError", <<"bad operand type for unary ~", xfm.kind>>)

\* ~xfm: defined for an Affine only
Invert(xfm) ==
    IF xfm.kind = "Affine"
    THEN Return(Affine(MatInverse(xfm.matrix)))
    ELSE Raise("TypeError", <<"bad operand type for unary ~", xfm.kind>>)

\* nt.linear.load(path)
LinearLoad(f) ==
    IF f.fmt = "itk" THEN Return(Affine(f.matrix))
    ELSE IF f.fmt = "absent" THEN Raise("FileNotFoundError", <<"no such file">>)
    ELSE Raise("TransformFileError", <<"not a linear transform">>)

\* a sub-chain with the affine as its first stage
load_ants_h5_affine_first(f) ==
    LET r == parse_combined_hdf5(f, TRUE) IN
    [out |-> IF r.out.kind = "raise" THEN r.out
             ELSE Return(TransformChain(
                      <<Affine(r.out.affine),
                        DenseFieldTransform(r.out.warp, r.out.warp_affine)>>)),
     opened |-> r.opened]

\* load_ants_h5(filename): [out, opened]
load_ants_h5(f) ==
    LET r == parse_combined_hdf5(f, TRUE) IN
    [out |-> IF r.out.kind = "raise" THEN r.out
             ELSE Return(TransformChain(
                      <<DenseFieldTransform(r.out.warp, r.out.warp_affine),
                        Affine(r.out.affine)>>)),
     opened |-> r.opened]

----------------------------------------------------------------------------
(* Evaluation of a transform at a point *)

\* a dense field moves a point of its grid by the vector stored at its voxel
\* and leaves a point outside the grid where it is
MapField(t, x) ==
    LET ijk == MatVec(MatInverse(t.affine), x)
        inside == \A a \in 1..3 : ijk[a] >= 0 /\ ijk[a] < t.field.shape[a]
    IN  IF inside
        THEN [a \in 1..3 |-> x[a] + t.field.at[<<ijk[1], ijk[2], ijk[3], a - 1>>]]
        ELSE x

MapOne(t, x) ==
    IF t.kind = "Affine" THEN MatVec(t.matrix, x)
    ELSE IF t.kind = "DenseField" THEN MapField(t, x)
    ELSE x

\* the components applied one after the other, the first one first
RECURSIVE MapSeq(_, _)
MapSeq(ts, x) == IF ts = <<>> THEN x ELSE MapSeq(Tail(ts), MapOne(Head(ts), x))

Map(t, x) == MapSeq(AsChain(t), x)

----------------------------------------------------------------------------
(* The files load_transforms is run on *)

ValidContainer ==
    Container([ok |-> TRUE, matrix |-> QuarterTurn],
              <<Entry("0", "CompositeTransform_double_3_3"),
                Entry("1", "AffineTransform_float_3_3"),
                Entry("2", DISPLACEMENT_TYPE)>>,
              FIXED_PARAMS, Stored(0, NumParams))

Path(stem, suffixes) == [stem |-> stem, suffixes |-> suffixes]

\* a suffix taken without regard to case
SuffixAnyCase(path) ==
    IF path.suffixes = <<>> THEN ""
    ELSE LET last == path.suffixes[Len(path.suffixes)]
         IN  IF last = ".H5" THEN ".h5" ELSE last

\* pathlib's Path.suffix: the last dot-component of the name, or ''
Suffix(path) ==
    IF path.suffixes = <<>> THEN "" ELSE path.suffixes[Len(path.suffixes)]

ShiftTxt == Path("shift", <<".txt">>)
TurnMat == Path("turn", <<".mat">>)
WarpH5 == Path("warp", <<".h5">>)
OtherH5 == Path("other", <<".h5">>)
MissingTxt == Path("missing", <<".txt">>)

\* paths whose name and content disagree, or whose suffix is close to '.h5'
UpperH5 == Path("upper", <<".H5">>)
LongHdf5 == Path("long", <<".hdf5">>)
PackedH5 == Path("packed", <<".h5", ".gz">>)
BareAffine == Path("affine", <<>>)
TextAsH5 == Path("text", <<".h5">>)

PathPool == {ShiftTxt, TurnMat, WarpH5, OtherH5, MissingTxt}

\* content of the file a path names
Files(path) ==
    CASE path = ShiftTxt -> TextFile(Translation(<<1, 0, 0>>))
      [] path = TurnMat -> TextFile(<< <<0, -1, 0, 0>>, <<1, 0, 0, 0>>,
                                      <<0, 0, 1, 0>>, <<0, 0, 0, 1>> >>)
      [] path = WarpH5 -> H5File(ValidContainer)
      [] path = OtherH5 ->
            H5File([ValidContainer EXCEPT
                      !.entries[3].type = "DisplacementFieldTransform_double_3_3"])
      [] path \in {UpperH5, LongHdf5} -> H5File(ValidContainer)
      [] path \in {PackedH5, BareAffine, TextAsH5} -> TextFile(Translation(<<0, 2, 0>>))
      [] OTHER -> Absent

RECURSIVE SeqsUpTo(_, _)
SeqsUpTo(S, n) ==
    IF n = 0 THEN {<<>>}
    ELSE LET shorter == SeqsUpTo(S, n - 1)
         IN  shorter \cup {Append(s, e) : s \in {t \in shorter : Len(t) = n - 1}, e \in S}

PathLists == SeqsUpTo(PathPool, MaxPaths)

InverseLists == SeqsUpTo(BOOLEAN, MaxInverse)

SuffixPool == {ShiftTxt, WarpH5, UpperH5, LongHdf5, PackedH5, BareAffine, TextAsH5}

SuffixPathLists == SeqsUpTo(SuffixPool, MaxPaths)

----------------------------------------------------------------------------
(* load_transforms *)

NoResult == [kind |-> "none"]

Min(a, b) == IF a < b THEN a ELSE b

\* the paths reversed, the flags not
ZipFlagsForward(paths, inv) ==
    [j \in 1..Min(Len(paths), Len(inv)) |-> <<Reverse(paths)[j], inv[j]>>]

\* the lists walked from the front
ZipForward(paths, inv) ==
    [j \in 1..Min(Len(paths), Len(inv)) |-> <<paths[j], inv[j]>>]

\* zip(xfm_paths[::-1], inverse[::-1])
ZipReversed(paths, inv) ==
    [j \in 1..Min(Len(paths), Len(inv)) |-> <<Reverse(paths)[j], Reverse(inv)[j]>>]

\* the single flag left as it is
BroadcastNot(inv, n) == inv

\* inverse *= len(xfm_paths), in place
Broadcast(inv, n) == Repeat(inv, n)

\* no test of the lengths at all
MismatchedNever(paths, inv) == FALSE

\* a test that lets a short list of flags through
MismatchedIfLonger(paths, inv) == Len(inv) > Len(paths)

\* line 18
Mismatched(paths, inv) == Len(inv) # Len(paths)

\* the chain returned as it is, None included
ChainAsIs(c) == c

\* lines 34-36: the value returned
Returned(c) == IF c = None THEN TransformBase ELSE c

\* xfm = load_ants_h5(path) if path.suffix == '.h5' else nt.linear.load(path)
LoadOne(path) ==
    IF Suffix(path) = ".h5" THEN load_ants_h5(Files(path))
    ELSE [out |-> LinearLoad(Files(path)), opened |-> FALSE]

\* a unit that falls back to the identity when it cannot be loaded or inverted
LoadUnitOrIdentity(path, inv) ==
    LET ld == LoadOne(path)
        xfm == IF ld.out.kind = "raise" \/ ~inv THEN ld.out ELSE Invert(ld.out.value)
    IN  IF xfm.kind = "raise" THEN Return(TransformBase) ELSE xfm

\* lines 23-29: the transform of one (path, inv) pair, or the error raised
LoadUnit(path, inv) ==
    LET ld == LoadOne(path)
    IN  IF ld.out.kind = "raise" \/ ~inv THEN ld.out ELSE Invert(ld.out.value)

\* lines 16-21: entry into load_transforms(paths, inv), up to the loop
Enter(paths, inv, pv) ==
    /\ xfm_paths' = paths
    /\ inverse0' = inv
    /\ prev' = pv
    /\ loads' = <<>>
    /\ leaked' = 0
    /\ chain' = None
    /\ IF Len(inv) = 1
       THEN /\ inverse' = Broadcast(inv, Len(paths))
            /\ todo' = ZipReversed(paths, inverse')
            /\ pc' = "loop"
            /\ result' = NoResult
       ELSE IF Mismatched(paths, inv)
       THEN /\ inverse' = inv
            /\ todo' = <<>>
            /\ pc' = "done"
            /\ result' = Raise("ValueError",
                               <<"Mismatched number of transforms and inverses">>)
       ELSE /\ inverse' = inv
            /\ todo' = ZipReversed(paths, inv)
            /\ pc' = "loop"
            /\ result' = NoResult
    /\ UNCHANGED <<h5_fn, parsed, handle, asked_ras>>
    /\ UNCHANGED concurrent
    /\ UNCHANGED selecting

\* the call under study, with fresh argument lists
Call(paths, inv) ==
    /\ pc = "idle"
    /\ parsed.out = NoResult
    /\ Enter(paths, inv, NoResult)

\* after a call with a single flag: the same paths with one copy of the flag
\* per path, the outcome of the first call being kept for comparison
CallExpanded ==
    /\ pc = "done"
    /\ Len(inverse0) = 1
    /\ prev = NoResult
    /\ Enter(xfm_paths, Repeat(inverse0, Len(xfm_paths)), result)

\* lines 22-33: one iteration of the loop
LoopIter ==
    /\ pc = "loop"
    /\ todo # <<>>
    /\ LET path == Head(todo)[1]
           inv == Head(todo)[2]
           ld == LoadOne(path)
           xfm == LoadUnit(path, inv)
       IN  /\ loads' = Append(loads, path)
           /\ \E hs \in HandleAfter(ld) :
                 leaked' = IF hs = "open" THEN leaked + 1 ELSE leaked
           /\ IF xfm.kind = "raise"
              THEN /\ result' = xfm
                   /\ pc' = "done"
                   /\ UNCHANGED <<chain, todo>>
              ELSE /\ chain' = IF chain = None THEN xfm.value
                               ELSE ChainAdd(chain, xfm.value)
                   /\ todo' = Tail(todo)
                   /\ UNCHANGED <<pc, result>>
    /\ UNCHANGED <<xfm_paths, inverse, inverse0, prev, h5_fn, parsed, handle, asked_ras>>
    /\ UNCHANGED concurrent
    /\ UNCHANGED selecting

\* lines 34-36
Finish ==
    /\ pc = "loop"
    /\ todo = <<>>
    /\ result' = Return(Returned(chain))
    /\ pc' = "done"
    /\ UNCHANGED <<xfm_paths, inverse, inverse0, todo, chain, loads, leaked, prev,
                   h5_fn, parsed, handle, asked_ras>>
    /\ UNCHANGED concurrent
    /\ UNCHANGED selecting

----------------------------------------------------------------------------
(* Direct calls of parse_combined_hdf5 *)

ParseCall(f, to_ras) ==
    /\ pc = "idle"
    /\ parsed.out = NoResult
    /\ LET r == parse_combined_hdf5(f, to_ras) IN
         /\ h5_fn' = f
         /\ parsed' = r
         /\ handle' \in HandleAfter(r)
         /\ asked_ras' = to_ras
    /\ UNCHANGED <<xfm_paths, inverse, inverse0, pc, todo, chain, result, loads,
                   leaked, prev>>
    /\ UNCHANGED concurrent
    /\ UNCHANGED selecting

----------------------------------------------------------------------------
(* Two calls of load_transforms that run at the same time *)

\* the frame of a call: its arguments and its locals; `inverse` names the list
\* object the caller passed
Frame(paths, lst) ==
    [xfm_paths |-> paths, inverse |-> lst, pc |-> "enter",
     todo |-> <<>>, chain |-> None, result |-> NoResult]

\* lines 16-19 in frame fr, the list objects being hp
FrameEnter(fr, hp) ==
    LET inv == hp[fr.inverse] IN
    IF Len(inv) = 1
    THEN [frame |-> [fr EXCEPT !.pc = "zip"],
          heap |-> [hp EXCEPT ![fr.inverse] = Broadcast(inv, Len(fr.xfm_paths))]]
    ELSE IF Mismatched(fr.xfm_paths, inv)
    THEN [frame |-> [fr EXCEPT !.pc = "done",
                               !.result = Raise("ValueError",
                                   <<"Mismatched number of transforms and inverses">>)],
          heap |-> hp]
    ELSE [frame |-> [fr EXCEPT !.pc = "zip"], heap |-> hp]

\* lines 21-22: the reversed copies of both lists are taken and zipped
FrameZip(fr, hp) ==
    [frame |-> [fr EXCEPT !.todo = ZipReversed(fr.xfm_paths, hp[fr.inverse]),
                          !.pc = "loop"],
     heap |-> hp]

\* lines 22-33: one iteration of the loop
FrameIter(fr, hp) ==
    LET xfm == LoadUnit(Head(fr.todo)[1], Head(fr.todo)[2]) IN
    [frame |-> IF xfm.kind = "raise"
               THEN [fr EXCEPT !.result = xfm, !.pc = "done"]
               ELSE [fr EXCEPT !.chain = IF fr.chain = None THEN xfm.value
                                         ELSE ChainAdd(fr.chain, xfm.value),
                               !.todo = Tail(fr.todo)],
     heap |-> hp]

\* lines 34-36
FrameFinish(fr, hp) ==
    [frame |-> [fr EXCEPT !.result = Return(Returned(fr.chain)), !.pc = "done"],
     heap |-> hp]

\* the two calls are made: the first is given list object 1, the second list
\* object lst
StartTwo(pathsA, pathsB, invA, invB, lst) ==
    /\ pc = "idle"
    /\ parsed.out = NoResult
    /\ calls = <<>>
    /\ calls' = <<Frame(pathsA, 1), Frame(pathsB, lst)>>
    /\ heap' = <<invA, invB>>
    /\ heap0' = <<invA, invB>>
    /\ UNCHANGED sequential
    /\ UNCHANGED selecting

\* call c takes the step s of its frame
Advance(c, s) ==
    /\ calls' = [calls EXCEPT ![c] = s.frame]
    /\ heap' = s.heap
    /\ UNCHANGED <<heap0, sequential, selecting>>

TwoEnter(c) ==
    /\ calls # <<>>
    /\ calls[c].pc = "enter"
    /\ Advance(c, FrameEnter(calls[c], heap))

TwoZip(c) ==
    /\ calls # <<>>
    /\ calls[c].pc = "zip"
    /\ Advance(c, FrameZip(calls[c], heap))

TwoIter(c) ==
    /\ calls # <<>>
    /\ calls[c].pc = "loop"
    /\ calls[c].todo # <<>>
    /\ Advance(c, FrameIter(calls[c], heap))

TwoFinish(c) ==
    /\ calls # <<>>
    /\ calls[c].pc = "loop"
    /\ calls[c].todo = <<>>
    /\ Advance(c, FrameFinish(calls[c], heap))

\* the files of the first caller and those of the second
PoolA == {ShiftTxt, WarpH5}
PoolB == {TurnMat}

\* the lists of flags the callers hold
SharedFlagLists == {<<TRUE>>} \cup SeqsUpTo({FALSE}, MaxPaths)

----------------------------------------------------------------------------
(* _select_template of workflows/bold/resampling.py *)

\* A dict is a function from its keys to their values.  Values are written as
\* strings: "2" is the resolution 2, "0" a value that is false in a condition,
\* PyNone the value None.
PyNone == "None"

Truthy(v) == v \notin {PyNone, "0", ""}

\* d.get(k, default)
DictGet(d, k, default) == IF k \in DOMAIN d THEN d[k] ELSE default

\* d after d.pop(k, None)
DictPop(d, k) == [x \in DOMAIN d \ {k} |-> d[x]]

\* d after d[k] = v
DictSet(d, k, v) == [x \in DOMAIN d \cup {k} |-> IF x = k THEN v ELSE d[x]]

\* The dict objects of a call: the caller's is object 1; a name for a dict holds
\* the number of the object.
\* line 1379: specs = specs.copy() makes object 2 with the content of the
\* object named and gives its number
DictCopy(dicts, ref) == [dicts |-> <<dicts[1], dicts[ref]>>, ref |-> 2]

\* line 1383: res = specs.pop("res", None) or specs.pop("resolution", None)
\* or "native", with the dict the pops leave
Sanitize(d) ==
    LET r1 == DictGet(d, "res", PyNone)
        d1 == DictPop(d, "res")
        r2 == DictGet(d1, "resolution", PyNone)
        d2 == DictPop(d1, "resolution")
    IN  IF Truthy(r1) THEN [res |-> r1, specs |-> d1]
        ELSE IF Truthy(r2) THEN [res |-> r2, specs |-> d2]
        ELSE [res |-> "native", specs |-> d2]

\* get_template_specs(template, template_spec=specs) on a template store that
\* answers a query by its resolution: the files found, or an error
get_template_specs(store, template, specs) ==
    LET answer == DictGet(store, specs["resolution"], "RuntimeError")
    IN  IF answer = "found"
        THEN Return(<<[template |-> template, spec |-> specs], "common">>)
        ELSE Raise(answer, <<template, specs["resolution"]>>)

\* an except clause that catches every error
CaughtAny(err) == TRUE

\* line 1392: except RuntimeError
Caught(err) == err.type = "RuntimeError"

\* the dict the local name specs refers to, and the objects after specs[k] = v
Specs == sel.dicts[sel.specs]

Stored2(k, v) == [sel.dicts EXCEPT ![sel.specs] = DictSet(@, k, v)]

NotSelecting ==
    [pc |-> "idle", template |-> <<>>, given |-> <<>>, dicts |-> <<>>, specs |-> 1,
     store |-> <<>>, res |-> PyNone, queries |-> <<>>, out |-> NoResult,
     result |-> NoResult]

\* lines 1375-1383: _select_template((template, specs)) up to the test of res
SelectCall(template, specs, store) ==
    /\ pc = "idle"
    /\ parsed.out = NoResult
    /\ calls = <<>>
    /\ sel.pc = "idle"
    /\ LET copy == DictCopy(<<specs>>, 1)
           withSuffix == DictSet(copy.dicts[copy.ref], "suffix",
                                 DictGet(copy.dicts[copy.ref], "suffix", "T1w"))
           clean == Sanitize(withSuffix)
       IN  sel' = [pc |-> IF clean.res # "native" THEN "direct" ELSE "res2",
                   template |-> Head(template),
                   given |-> specs,
                   dicts |-> [copy.dicts EXCEPT ![copy.ref] = clean.specs],
                   specs |-> copy.ref,
                   store |-> store,
                   res |-> clean.res,
                   queries |-> <<>>,
                   out |-> NoResult,
                   result |-> NoResult]
    /\ UNCHANGED <<sequential, concurrent>>

\* lines 1384-1386: the query at the resolution asked for
SelectDirect ==
    /\ sel.pc = "direct"
    /\ LET dicts == Stored2("resolution", sel.res)
           q == dicts[sel.specs]
           out == get_template_specs(sel.store, sel.template, q)
       IN  sel' = [sel EXCEPT !.dicts = dicts,
                              !.queries = Append(@, q),
                              !.pc = "done",
                              !.result = IF out.kind = "raise" THEN out
                                         ELSE Return(out.value[1])]
    /\ UNCHANGED <<sequential, concurrent>>

\* lines 1389-1391: the query at resolution 2
SelectRes2 ==
    /\ sel.pc = "res2"
    /\ LET dicts == Stored2("resolution", "2")
           q == dicts[sel.specs]
           out == get_template_specs(sel.store, sel.template, q)
       IN  sel' = [sel EXCEPT !.dicts = dicts,
                              !.queries = Append(@, q),
                              !.out = out,
                              !.pc = IF out.kind = "return" THEN "return"
                                     ELSE IF Caught(out) THEN "res1"
                                     ELSE "done",
                              !.result = IF out.kind = "raise" /\ ~Caught(out)
                                         THEN out ELSE @]
    /\ UNCHANGED <<sequential, concurrent>>

\* lines 1392-1394: the query at resolution 1 after a RuntimeError
SelectRes1 ==
    /\ sel.pc = "res1"
    /\ LET dicts == Stored2("resolution", "1")
           q == dicts[sel.specs]
           out == get_template_specs(sel.store, sel.template, q)
       IN  sel' = [sel EXCEPT !.dicts = dicts,
                              !.queries = Append(@, q),
                              !.out = out,
                              !.pc = IF out.kind = "return" THEN "return" ELSE "done",
                              !.result = IF out.kind = "raise" THEN out ELSE @]
    /\ UNCHANGED <<sequential, concurrent>>

\* line 1396: return out[0]
SelectReturn ==
    /\ sel.pc = "return"
    /\ sel' = [sel EXCEPT !.pc = "done", !.result = Return(sel.out.value[1])]
    /\ UNCHANGED <<sequential, concurrent>>

\* the values a spec gives for 'res' and 'resolution'
ResGiven == {"1", "2", "native", "0"}

\* the spec dicts of the callers
SpecDicts ==
    UNION {[K -> ResGiven \cup {"T1w", "T2w"}] : K \in SUBSET {"res", "resolution", "suffix"}}

WellFormed(d) ==
    /\ \A k \in DOMAIN d \cap {"res", "resolution"} : d[k] \in ResGiven
    /\ "suffix" \in DOMAIN d => d["suffix"] \in {"T1w", "T2w"}

\* template names, with and without a cohort modifier
Templates == {<<"MNI152NLin2009cAsym">>, <<"MNIPediatricAsym", "cohort-1">>}

\* what the template store answers at resolutions 1 and 2
Stores == [{"1", "2"} -> {"found", "RuntimeError", "KeyError"}]

----------------------------------------------------------------------------
(* Specifications *)

Init ==
    /\ xfm_paths = <<>>
    /\ inverse = <<>>
    /\ inverse0 = <<>>
    /\ pc = "idle"
    /\ todo = <<>>
    /\ chain = None
    /\ result = NoResult
    /\ loads = <<>>
    /\ leaked = 0
    /\ prev = NoResult
    /\ h5_fn = Absent
    /\ parsed = [out |-> NoResult, events |-> <<>>, opened |-> FALSE]
    /\ handle = "none"
    /\ calls = <<>>
    /\ heap = <<>>
    /\ heap0 = <<>>
    /\ asked_ras = TRUE
    /\ sel = NotSelecting

Next ==
    \/ \E paths \in PathLists, inv \in InverseLists : Call(paths, inv)
    \/ CallExpanded
    \/ LoopIter
    \/ Finish

\* one call of load_transforms, and its repetition with the flags written out
Spec == Init /\ [][Next]_vars

NextSuffix ==
    \/ \E paths \in SuffixPathLists, inv \in InverseLists : Call(paths, inv)
    \/ LoopIter
    \/ Finish

\* one call of load_transforms on paths of various suffixes and contents
SpecSuffix == Init /\ [][NextSuffix]_vars

NextTwo ==
    \/ \E pathsA \in SeqsUpTo(PoolA, MaxPaths), pathsB \in SeqsUpTo(PoolB, MaxPaths),
          invA \in SharedFlagLists, invB \in SharedFlagLists, lst \in {1, 2} :
            StartTwo(pathsA, pathsB, invA, invB, lst)
    \/ \E c \in {1, 2} : TwoEnter(c) \/ TwoZip(c) \/ TwoIter(c) \/ TwoFinish(c)

\* two calls of load_transforms on different files, their steps interleaved
SpecTwo == Init /\ [][NextTwo]_vars

NextSelect ==
    \/ \E template \in Templates, specs \in {d \in SpecDicts : WellFormed(d)},
          store \in Stores : SelectCall(template, specs, store)
    \/ SelectDirect
    \/ SelectRes2
    \/ SelectRes1
    \/ SelectReturn

\* one call of _select_template
SpecSelect == Init /\ [][NextSelect]_vars

NextParse ==
    \E f \in {H5File(h) : h \in Containers} \cup {Absent}, to_ras \in BOOLEAN :
        ParseCall(f, to_ras)

\* one call of parse_combined_hdf5
SpecParse == Init /\ [][NextParse]_vars

----------------------------------------------------------------------------
(* Properties of load_transforms *)

\* points the chains are evaluated at: two off the displacement grid, the rest on it
Points ==
    {<<0, 0, 0>>, <<1, 2, 3>>}
    \cup {<<i - 96, j - 132, k - 78>> : i \in {0, 1}, j \in {0, 2}, k \in {0, 1}}

Succeeded == pc = "done" /\ result.kind = "return"

\* the flag of each path after the broadcast of a single flag
ResolvedFlags ==
    IF Len(inverse0) = 1 THEN [i \in 1..Len(xfm_paths) |-> inverse0[1]] ELSE inverse0

AllFlagsFalse == \A i \in 1..Len(inverse0) : ~inverse0[i]

\* T_i: the transform loaded from xfm_paths[i]
Loaded(i) == LoadOne(xfm_paths[i]).out.value

\* the components of T_i, ..., T_j in that order (i <= j) or T_i, ..., T_j
\* counted down (i >= j)
RECURSIVE Components(_, _, _)
Components(U(_), i, j) ==
    IF i = j THEN U(i)
    ELSE IF i < j THEN U(i) \o Components(U, i + 1, j)
    ELSE U(i) \o Components(U, i - 1, j)

LoadedUnit(i) == AsChain(Loaded(i))

ExpectedUnit(i) ==
    IF ResolvedFlags[i] THEN <<Affine(MatInverse(Loaded(i).matrix))>> ELSE LoadedUnit(i)

\* C2: the components of a returned chain are, path by path, the transform of
\* that path, inverted on its own exactly when the path's own flag is set; and a
\* failed inversion is that of a path whose flag is set.
C2_FlagsPaired ==
    /\ (Succeeded /\ xfm_paths # <<>>)
          => AsChain(result.value) = Components(ExpectedUnit, Len(xfm_paths), 1)
    /\ (pc = "done" /\ result.kind = "raise" /\ result.type = "TypeError")
          => ResolvedFlags[Len(todo)]

\* two paths with different flags, the inverted one differing from its original
C2_Witness ==
    /\ Succeeded /\ Len(xfm_paths) = 2 /\ Len(inverse0) = 2
    /\ inverse0[1] /\ ~inverse0[2]
    /\ ExpectedUnit(1) # LoadedUnit(1)

\* C3: a call with the single flag b has the outcome of the call on the same
\* paths with one copy of b per path.
C3_Broadcast == (pc = "done" /\ prev # NoResult) => result = prev

C3_Witness ==
    /\ pc = "done" /\ prev # NoResult /\ prev.kind = "return"
    /\ Len(xfm_paths) = 2 /\ inverse0 = <<TRUE, TRUE>>

IsMismatchError(r) ==
    /\ r.kind = "raise"
    /\ r.type = "ValueError"
    /\ r.msg[1] = "Mismatched number of transforms and inverses"

\* C4: the call fails with the mismatched-count error exactly when the number
\* of flags is neither 1 nor the number of paths.
C4_MismatchIff ==
    pc # "idle"
        => (IsMismatchError(result)
               <=> (Len(inverse0) # 1 /\ Len(inverse0) # Len(xfm_paths)))

\* paths without any flag are rejected
C4_Witness ==
    /\ pc = "done" /\ IsMismatchError(result)
    /\ xfm_paths # <<>> /\ inverse0 = <<>>

\* C5: with no path and at most one flag the call opens no file and returns
\* the identity transform.
C5_EmptyIsIdentity ==
    (pc = "done" /\ xfm_paths = <<>> /\ Len(inverse0) <= 1)
        => /\ result.kind = "return"
           /\ result.value = TransformBase
           /\ loads = <<>>
           /\ \A x \in Points : Map(result.value, x) = x

C5_Witness ==
    /\ pc = "done" /\ xfm_paths = <<>> /\ Len(inverse0) = 1
    /\ result.kind = "return"

----------------------------------------------------------------------------
(* Properties of parse_combined_hdf5 *)

Parsed == parsed.out.kind # "none" /\ h5_fn.fmt = "h5"

IsUnknownTypeError(r) ==
    r.kind = "raise" /\ r.type = "ValueError" /\ r.msg[1] = "Unknown transform type [2]"

IsUnexpectedFixedError(r) ==
    r.kind = "raise" /\ r.type = "ValueError" /\ r.msg[1] = "Unexpected fixed parameters"

\* C6: when parse_combined_hdf5 has returned or raised, the handle it opened is
\* closed.
C6_HandleClosed == parsed.out.kind # "none" => handle # "open"

ReferenceFixed ==
    <<GridX, GridY, GridZ, 96, 132, -78, 1, 1, 1, -1, 0, 0, 0, -1, 0, 0, 0, 1>>

\* C7 as stated: a result is returned only for the reference vector of fixed
\* parameters, and every container whose vector differs from it fails with the
\* unexpected-fixed-parameters error.
C7_AnyOtherVector ==
    (Parsed /\ HasKey(h5_fn.h5, "2"))
        => /\ parsed.out.kind = "return" => h5_fn.h5.fixed = ReferenceFixed
           /\ h5_fn.h5.fixed # ReferenceFixed => IsUnexpectedFixedError(parsed.out)

\* C7 amended: a result is returned only for the reference vector of fixed
\* parameters, and every container whose linear part decodes, whose transform
\* "2" declares the supported type and whose vector differs from the reference
\* fails with the unexpected-fixed-parameters error.
C7_FixedChecked ==
    (Parsed /\ HasKey(h5_fn.h5, "2"))
        => /\ parsed.out.kind = "return" => h5_fn.h5.fixed = ReferenceFixed
           /\ (/\ h5_fn.h5.linear.ok
               /\ TransformType(h5_fn.h5, "2") = DISPLACEMENT_TYPE
               /\ h5_fn.h5.fixed # ReferenceFixed)
                 => IsUnexpectedFixedError(parsed.out)

\* a vector one element longer than the reference has been rejected
C7_Witness ==
    /\ Parsed /\ IsUnexpectedFixedError(parsed.out)
    /\ Len(h5_fn.h5.fixed) = Len(ReferenceFixed) + 1

\* C8 as stated: every container whose transform "2" declares another type fails
\* with the unsupported-transform-type error.
C8_AnyOtherType ==
    (Parsed /\ HasKey(h5_fn.h5, "2") /\ TransformType(h5_fn.h5, "2") # DISPLACEMENT_TYPE)
        => IsUnknownTypeError(parsed.out)

\* C8 amended: every container whose linear part decodes and whose transform "2"
\* declares another type fails with the unsupported-transform-type error.
C8_OtherTypeAfterDecoding ==
    (/\ Parsed /\ h5_fn.h5.linear.ok
     /\ HasKey(h5_fn.h5, "2") /\ TransformType(h5_fn.h5, "2") # DISPLACEMENT_TYPE)
        => IsUnknownTypeError(parsed.out)

\* a displacement field of another precision has been rejected, the fixed
\* parameters being wrong as well
C8_Witness ==
    /\ Parsed /\ IsUnknownTypeError(parsed.out)
    /\ TransformType(h5_fn.h5, "2") = "DisplacementFieldTransform_double_3_3"
    /\ h5_fn.h5.fixed # ReferenceFixed
    /\ Len(h5_fn.h5.entries) = 4

\* C9: the warp returned has shape (X, Y, Z, 3) and warp[x, y, z, c] has the
\* magnitude of the stored parameter at index ((z * Y + y) * X + x) * 3 + c.
C9_RasterOrder ==
    (Parsed /\ parsed.out.kind = "return")
        => /\ parsed.out.warp.shape = <<GridX, GridY, GridZ, 3>>
           /\ \A x \in 0..(GridX - 1), y \in 0..(GridY - 1), z \in 0..(GridZ - 1),
                 c \in 0..2 :
                 Abs(parsed.out.warp.at[<<x, y, z, c>>])
                     = Abs(h5_fn.h5.params[((z * GridY + y) * GridX + x) * 3 + c + 1])

\* a warp whose stored magnitudes are all different has been returned
C9_Witness ==
    /\ Parsed /\ parsed.out.kind = "return"
    /\ \A i, j \in 1..Len(h5_fn.h5.params) :
          i # j => Abs(h5_fn.h5.params[i]) # Abs(h5_fn.h5.params[j])

\* the stored value the entry ix of the warp comes from
StoredAt(ix) ==
    h5_fn.h5.params[((ix[3] * GridY + ix[2]) * GridX + ix[1]) * 3 + ix[4] + 1]

\* C10: components 0 and 1 of every voxel of the warp are the negated stored
\* values and component 2 is the stored value.
C10_SignMask ==
    (Parsed /\ parsed.out.kind = "return")
        => \A ix \in DOMAIN parsed.out.warp.at :
              parsed.out.warp.at[ix] = IF ix[4] = 2 THEN StoredAt(ix) ELSE -StoredAt(ix)

\* a warp with non-zero stored values in all three components has been returned
C10_Witness ==
    /\ Parsed /\ parsed.out.kind = "return"
    /\ \A ix \in DOMAIN parsed.out.warp.at : StoredAt(ix) # 0

----------------------------------------------------------------------------
(* The grid affine of the displacement field *)

\* the grid origin of a fixed-parameter vector: its elements 3..5, counted from 0
GridOrigin(fixed) == <<fixed[4], fixed[5], fixed[6]>>

\* m is the 4x4 matrix of the translation by t
IsTranslationBy(m, t) ==
    /\ \A r \in 1..3, c \in 1..3 : m[r][c] = (IF r = c THEN 1 ELSE 0)
    /\ m[4] = <<0, 0, 0, 1>>
    /\ \A r \in 1..3 : m[r][4] = t[r]

ParsedOk == Parsed /\ parsed.out.kind = "return"

\* C11 as stated: the warp_affine returned is the translation by the
\* component-wise negation of the grid origin of the fixed-parameter vector.
C11_NegatedOrigin ==
    ParsedOk =>
        LET o == GridOrigin(h5_fn.h5.fixed)
        IN  IsTranslationBy(parsed.out.warp_affine, <<-o[1], -o[2], -o[3]>>)

\* C11 amended: the warp_affine returned has an identity linear part, the last
\* row (0, 0, 0, 1), and as translation the grid origin of the fixed-parameter
\* vector with its first two components negated and its third unchanged.
C11_OriginToRas ==
    ParsedOk =>
        LET o == GridOrigin(h5_fn.h5.fixed)
        IN  IsTranslationBy(parsed.out.warp_affine, <<-o[1], -o[2], o[3]>>)

\* a container has been parsed whose grid origin has a third component that is
\* not zero
C11_Witness ==
    /\ ParsedOk
    /\ GridOrigin(h5_fn.h5.fixed)[3] # 0
    /\ GridOrigin(h5_fn.h5.fixed)[1] # 0

----------------------------------------------------------------------------
(* Failures inside the loop of load_transforms *)

\* the loop has been entered: the flags were compatible with the paths
InLoop == pc \in {"loop", "done"} /\ ~IsMismatchError(result)

\* number of paths the loop has processed with success
Processed == Len(xfm_paths) - Len(todo)

\* what path i yields on its own: the transform loaded from it, inverted when
\* its flag is set, or the error that loading or inverting it raises
UnitOutcome(i) ==
    LET ld == LoadOne(xfm_paths[i]).out
    IN  IF ld.kind = "raise" THEN ld
        ELSE IF ResolvedFlags[i] THEN Invert(ld.value)
        ELSE ld

Failing == {i \in 1..Len(xfm_paths) : UnitOutcome(i).kind = "raise"}

\* C12: a call whose flags are compatible with its paths returns a chain only
\* when no path fails to load or to invert; when one fails, the call raises the
\* very error that loading or inverting that path raised, and the failing path
\* has been given no component in a chain.
C12_ErrorPropagates ==
    (pc = "done" /\ InLoop)
        => IF Failing = {}
           THEN result.kind = "return"
           ELSE /\ result.kind = "raise"
                /\ \E i \in Failing : result = UnitOutcome(i) /\ Processed = Len(xfm_paths) - i

\* a call has failed on its second file, after a first transform had been
\* accumulated
C12_Witness ==
    /\ pc = "done" /\ InLoop
    /\ result.kind = "raise"
    /\ chain # None
    /\ Len(loads) = 2

----------------------------------------------------------------------------
(* The arguments of load_transforms *)

\* C13: after a call, the caller's list of flags holds the elements it held
\* before the call.
C13_ArgumentsUnchanged == pc # "idle" => inverse = inverse0

----------------------------------------------------------------------------
(* Composite files *)

\* position in loads of the path with index i
LoadOf(i) == Len(xfm_paths) + 1 - i

\* the composite paths that the loop has loaded without error
CompositeLoaded ==
    {i \in 1..Len(xfm_paths) :
        /\ InLoop
        /\ LoadOf(i) <= Len(loads)
        /\ xfm_paths[i].suffixes # <<>>
        /\ xfm_paths[i].suffixes[Len(xfm_paths[i].suffixes)] = ".h5"
        /\ Files(xfm_paths[i]).fmt = "h5"
        /\ parse_combined_hdf5(Files(xfm_paths[i]), TRUE).out.kind = "return"}

\* the components accumulated so far
ChainSoFar == IF chain = None THEN <<>> ELSE AsChain(chain)

\* the components that the paths processed before the path with index i have
\* contributed
ChainBefore(i) ==
    IF i = Len(xfm_paths) THEN <<>>
    ELSE Components(LAMBDA j : AsChain(UnitOutcome(j).value), Len(xfm_paths), i + 1)

\* the components accumulated from the path with index i on
UnitAt(i) == SubSeq(ChainSoFar, Len(ChainBefore(i)) + 1, Len(ChainSoFar))

\* C14: a composite path whose flag is not set contributes two components to the
\* chain: the displacement field of the file first, its affine second; mapping
\* a point through them displaces it by the field and then applies the affine.
C14_FieldThenAffine ==
    \A i \in CompositeLoaded :
        ~ResolvedFlags[i] =>
            LET r == parse_combined_hdf5(Files(xfm_paths[i]), TRUE).out
                u == UnitAt(i)
            IN  /\ Len(u) >= 2
                /\ u[1] = DenseFieldTransform(r.warp, r.warp_affine)
                /\ u[2] = Affine(r.affine)
                /\ \A x \in Points :
                      MapSeq(<<u[1], u[2]>>, x) = MatVec(r.affine, MapField(u[1], x))

\* a composite file has been loaded for which the order of the two stages shows
\* at some point
C14_Witness ==
    /\ Succeeded
    /\ \E i \in CompositeLoaded :
          /\ ~ResolvedFlags[i]
          /\ \E x \in Points :
                LET u == UnitAt(i)
                IN  MapSeq(<<u[1], u[2]>>, x) # MapSeq(<<u[2], u[1]>>, x)

\* C15 as stated: a composite path whose flag is set contributes two components
\* to the chain: the inverse of the file's affine first, a displacement field
\* second.
C15_InvertedSubchain ==
    \A i \in CompositeLoaded :
        ResolvedFlags[i] =>
            LET r == parse_combined_hdf5(Files(xfm_paths[i]), TRUE).out
            IN  /\ Processed >= LoadOf(i)
                /\ Len(UnitAt(i)) >= 2
                /\ UnitAt(i)[1] = Affine(MatInverse(r.affine))
                /\ UnitAt(i)[2].kind = "DenseField"

\* C15 amended: a composite path whose flag is set contributes nothing to the
\* chain: the call ends at that path with the TypeError of the inversion of the
\* two-stage sub-chain, the chain accumulated before it left as it was.
C15_InversionRaises ==
    \A i \in CompositeLoaded :
        ResolvedFlags[i] =>
            /\ pc = "done"
            /\ result.kind = "raise" /\ result.type = "TypeError"
            /\ Processed = LoadOf(i) - 1
            /\ Len(loads) = LoadOf(i)
            /\ ChainSoFar = ChainBefore(i)

\* a call has loaded a valid composite file whose flag is set, after another
\* transform
C15_Witness ==
    /\ pc = "done"
    /\ Len(xfm_paths) = 2
    /\ Len(inverse0) = 2
    /\ 1 \in CompositeLoaded
    /\ ResolvedFlags[1]
    /\ chain # None

----------------------------------------------------------------------------
(* Order of the steps of load_transforms *)

Incompatible == Len(inverse0) # 1 /\ Len(inverse0) # Len(xfm_paths)

\* C17: a call whose number of flags is neither 1 nor the number of paths ends
\* with the mismatch error without having loaded or opened any file, whatever
\* the paths name.
C17_MismatchBeforeLoads ==
    /\ (pc # "idle" /\ Incompatible)
          => pc = "done" /\ IsMismatchError(result) /\ loads = <<>> /\ leaked = 0
    /\ IsMismatchError(result) => loads = <<>> /\ chain = None

\* a call with incompatible flags has ended whose paths name a missing file and
\* a composite file of unsupported content
C17_Witness ==
    /\ pc = "done" /\ Incompatible
    /\ xfm_paths = <<MissingTxt, OtherH5>>
    /\ LoadOne(MissingTxt).out.kind = "raise"
    /\ LoadOne(OtherH5).out.kind = "raise"

\* C18: the k-th file loaded is the one of index n + 1 - k, so that the files
\* are loaded last to first and none twice; a call that returns has loaded all
\* n; a call that fails has stopped at the failing path of highest index, with
\* the error of that path, and has loaded no path below it.
C18_DescendingOnce ==
    InLoop =>
        /\ Len(loads) <= Len(xfm_paths)
        /\ \A k \in 1..Len(loads) : loads[k] = xfm_paths[LoadOf(k)]
        /\ Succeeded => Len(loads) = Len(xfm_paths)
        /\ (pc = "done" /\ result.kind = "raise")
              => LET i == LoadOf(Len(loads))
                 IN  /\ i \in Failing
                     /\ \A j \in Failing : j <= i
                     /\ result = UnitOutcome(i)

\* a call on two invalid paths with different errors has failed
C18_Witness ==
    /\ pc = "done" /\ InLoop
    /\ Failing = {1, 2}
    /\ UnitOutcome(1) # UnitOutcome(2)
    /\ result.kind = "raise"

\* the components that the paths processed so far should have contributed
ExpectedSoFar ==
    IF Processed = 0 THEN <<>>
    ELSE Components(LAMBDA j : AsChain(UnitOutcome(j).value),
                    Len(xfm_paths), Len(xfm_paths) - Processed + 1)

\* C19: at every point of the loop the chain accumulated holds the transforms
\* of the paths processed so far, inverted where their flag is set, once each
\* and in the order of processing, the last path's first; and a call on a
\* single path returns the transform of that path itself.
C19_ChainInvariant ==
    InLoop =>
        /\ ChainSoFar = ExpectedSoFar
        /\ (Succeeded /\ Len(xfm_paths) = 1) => result.value = UnitOutcome(1).value

\* the loop has processed two paths that contribute different components, one
\* of them inverted
C19_Witness ==
    /\ pc = "loop"
    /\ Processed = 2
    /\ UnitOutcome(1).value # UnitOutcome(2).value
    /\ ResolvedFlags[1] /\ ~ResolvedFlags[2]
    /\ Len(ChainSoFar) = 3

----------------------------------------------------------------------------
(* Choice of the loader *)

FinalSuffixIsH5(path) ==
    path.suffixes # <<>> /\ path.suffixes[Len(path.suffixes)] = ".h5"

\* what path i yields when its loader is chosen by the final suffix alone
ByExtension(i) ==
    LET f == Files(xfm_paths[i])
        ld == IF FinalSuffixIsH5(xfm_paths[i]) THEN load_ants_h5(f).out ELSE LinearLoad(f)
    IN  IF ld.kind = "raise" THEN ld
        ELSE IF ResolvedFlags[i] THEN Invert(ld.value)
        ELSE ld

\* the components that path i contributes under that choice
ExtensionUnit(i) ==
    IF ByExtension(i).kind = "return" THEN AsChain(ByExtension(i).value) ELSE <<>>

\* C20: every path processed has been given to the composite loader when its
\* final suffix is exactly '.h5' and to the linear loader otherwise, whatever
\* the file holds: the chain accumulated and the error raised are those that
\* this choice of loaders produces.
C20_LoaderByExtension ==
    InLoop =>
        /\ \A k \in 1..Processed : ByExtension(LoadOf(k)).kind = "return"
        /\ ChainSoFar =
              (IF Processed = 0 THEN <<>>
               ELSE Components(ExtensionUnit, Len(xfm_paths), Len(xfm_paths) - Processed + 1))
        /\ (pc = "done" /\ result.kind = "raise")
              => result = ByExtension(LoadOf(Len(loads)))
        /\ Succeeded => \A i \in 1..Len(xfm_paths) : ByExtension(i).kind = "return"

\* a call has gone through a composite file named '.H5', which the linear
\* loader rejected, after a linear file named '.h5.gz' had been loaded
C20_Witness ==
    /\ pc = "done"
    /\ xfm_paths = <<UpperH5, PackedH5>>
    /\ Len(loads) = 2
    /\ result = Raise("TransformFileError", <<"not a linear transform">>)
    /\ ChainSoFar = <<Affine(Translation(<<0, 2, 0>>))>>

----------------------------------------------------------------------------
(* Concurrent calls *)

\* the outcome of the call of frame fr when no other call runs
RECURSIVE RunAlone(_, _)
RunAlone(fr, hp) ==
    IF fr.pc = "done" THEN fr.result
    ELSE LET s == CASE fr.pc = "enter" -> FrameEnter(fr, hp)
                    [] fr.pc = "zip" -> FrameZip(fr, hp)
                    [] fr.pc = "loop" /\ fr.todo # <<>> -> FrameIter(fr, hp)
                    [] OTHER -> FrameFinish(fr, hp)
         IN  RunAlone(s.frame, s.heap)

\* C16: each of two calls on different files, their steps interleaved in any
\* way, ends with the outcome it has when it runs alone on the same arguments.
C16_Isolated ==
    \A c \in DOMAIN calls :
        calls[c].pc = "done"
            => calls[c].result =
                 RunAlone(Frame(calls[c].xfm_paths, calls[c].inverse), heap0)

----------------------------------------------------------------------------
(* Diagnostics and refusals *)

\* C21: the message of the unsupported-transform-type error has, after its
\* header, one line per entry of TransformGroup, each with the key and the
\* declared type of that entry, none left out and none added.
C21_MessageListsEntries ==
    (Parsed /\ IsUnknownTypeError(parsed.out))
        => LET msg == parsed.out.msg
               entries == h5_fn.h5.entries
           IN  /\ Len(msg) = Len(entries) + 1
               /\ \A i \in 1..Len(entries) :
                     \E k \in 2..Len(msg) : msg[k] = <<entries[i].key, entries[i].type>>
               /\ \A k \in 2..Len(msg) :
                     \E i \in 1..Len(entries) : msg[k] = <<entries[i].key, entries[i].type>>

\* a container of four entries, of three different types, has been rejected for
\* the type of its entry "2"
C21_Witness ==
    /\ Parsed /\ IsUnknownTypeError(parsed.out)
    /\ Len(h5_fn.h5.entries) = 4
    /\ Cardinality({h5_fn.h5.entries[i].type : i \in 1..4}) >= 3
    /\ TransformType(h5_fn.h5, "2") = "AffineTransform_float_3_3"

\* the paths with the composite suffix whose flag is set
FlaggedComposite ==
    {i \in 1..Len(xfm_paths) :
        /\ InLoop
        /\ xfm_paths[i].suffixes # <<>>
        /\ xfm_paths[i].suffixes[Len(xfm_paths[i].suffixes)] = ".h5"
        /\ ResolvedFlags[i]}

\* C22: a call that has a composite path with its flag set ends with an error
\* and returns no chain; when the composite file itself loads and the loop
\* reaches it, the error is the TypeError of the refused inversion.
C22_InversionRefused ==
    (pc = "done" /\ FlaggedComposite # {})
        => /\ result.kind = "raise"
           /\ \A i \in FlaggedComposite :
                 (LoadOne(xfm_paths[i]).out.kind = "return" /\ Len(loads) = LoadOf(i))
                     => result.type = "TypeError"

\* a single flag, broadcast to a linear and a composite path, has been refused
\* at the composite file, the first one loaded
C22_Witness ==
    /\ pc = "done"
    /\ xfm_paths = <<ShiftTxt, WarpH5>>
    /\ inverse0 = <<TRUE>>
    /\ loads = <<WarpH5>>
    /\ result.kind = "raise" /\ result.type = "TypeError"

----------------------------------------------------------------------------
(* Order and completeness of the steps of parse_combined_hdf5 *)

StepOrder == <<"open", "decode", "type", "fixed", "params">>

\* C23: the file operations of a call are an initial part of: open, decode the
\* linear part, check the type of transform "2", check its fixed parameters,
\* read the displacement parameters.  So a container that decodes and has both
\* a wrong type and wrong fixed parameters fails with the unsupported-type
\* error, and the parameters are read only when both checks have passed.
C23_StepOrder ==
    Parsed =>
        LET ev == parsed.events
            h == h5_fn.h5
        IN  /\ Len(ev) <= Len(StepOrder)
            /\ \A k \in 1..Len(ev) : k <= Len(StepOrder) => ev[k] = StepOrder[k]
            /\ (/\ h.linear.ok /\ HasKey(h, "2")
                /\ TransformType(h, "2") # DISPLACEMENT_TYPE
                /\ h.fixed # ReferenceFixed)
                  => IsUnknownTypeError(parsed.out) /\ ev = SubSeq(StepOrder, 1, 3)
            /\ (\E k \in 1..Len(ev) : ev[k] = "params")
                  => TransformType(h, "2") = DISPLACEMENT_TYPE /\ h.fixed = ReferenceFixed

\* a container of wrong type and wrong fixed parameters has been rejected at
\* the type check, its parameters unread
C23_Witness ==
    /\ Parsed /\ IsUnknownTypeError(parsed.out)
    /\ h5_fn.h5.fixed # ReferenceFixed
    /\ Len(h5_fn.h5.fixed) = Len(ReferenceFixed)
    /\ parsed.events = <<"open", "decode", "type">>
    /\ Len(h5_fn.h5.params) = GridX * GridY * GridZ * 3

\* the container passes the decoding and both validations
Validated ==
    /\ Parsed
    /\ h5_fn.h5.linear.ok
    /\ HasKey(h5_fn.h5, "2")
    /\ TransformType(h5_fn.h5, "2") = DISPLACEMENT_TYPE
    /\ h5_fn.h5.fixed = ReferenceFixed

\* C24: a validated container whose parameter vector has not exactly
\* X * Y * Z * 3 elements makes the call fail; a warp is returned only from a
\* vector of that length, and has one entry per element of it.
C24_WrongLengthFails ==
    /\ (Validated /\ Len(h5_fn.h5.params) # GridX * GridY * GridZ * 3)
          => parsed.out.kind = "raise"
    /\ ParsedOk
          => /\ Len(h5_fn.h5.params) = GridX * GridY * GridZ * 3
             /\ parsed.out.warp.shape = <<GridX, GridY, GridZ, 3>>
             /\ Cardinality(DOMAIN parsed.out.warp.at) = Len(h5_fn.h5.params)

\* a validated container with three parameters too many has been rejected when
\* its parameters were read
C24_Witness ==
    /\ Validated
    /\ Len(h5_fn.h5.params) = GridX * GridY * GridZ * 3 + 3
    /\ parsed.out.kind = "raise"
    /\ parsed.events = StepOrder

\* C26: the outcome of a call is the outcome of the call on the same container
\* with the other value of to_ras, and an affine returned is the stored one
\* taken to RAS.
C26_ToRasIgnored ==
    parsed.out.kind # "none"
        => /\ parsed.out = parse_combined_hdf5(h5_fn, ~asked_ras).out
           /\ ParsedOk => parsed.out.affine = MatMul(LPS, MatMul(h5_fn.h5.linear.matrix, LPS))

\* a call with to_ras false has returned an affine that differs from the stored
\* one
C26_Witness ==
    /\ ParsedOk
    /\ ~asked_ras
    /\ parsed.out.affine # h5_fn.h5.linear.matrix

----------------------------------------------------------------------------
(* Queries of _select_template *)

\* the resolution a spec asks for: that of 'res' when it counts as true, else
\* that of 'resolution' when it counts as true, else native
Requested(d) ==
    IF "res" \in DOMAIN d /\ d["res"] \notin {"None", "0", ""} THEN d["res"]
    ELSE IF "resolution" \in DOMAIN d /\ d["resolution"] \notin {"None", "0", ""}
    THEN d["resolution"]
    ELSE "native"

\* the resolutions queried so far, in order
Queried == [k \in 1..Len(sel.queries) |-> sel.queries[k]["resolution"]]

\* the answer of the store at a resolution, as the call hands it on
Answer(res) ==
    IF sel.store[res] = "found"
    THEN Return([template |-> sel.template,
                 spec |-> [k \in (DOMAIN sel.given \ {"res", "resolution"})
                                    \cup {"suffix", "resolution"} |->
                              IF k = "resolution" THEN res
                              ELSE IF k \in DOMAIN sel.given THEN sel.given[k]
                              ELSE "T1w"]])
    ELSE [kind |-> "raise", type |-> sel.store[res], msg |-> <<sel.template, res>>]

\* C25: a call makes at most two queries.  For a requested resolution other
\* than native it makes one query, at that resolution, and ends with its
\* answer.  Otherwise it queries resolution 2 first, and resolution 1 exactly
\* when the store answered RuntimeError at 2, ending with the answer at 1; any
\* other answer at 2 ends the call.  The caller's dict is never written.
C25_QueryOrder ==
    sel.pc # "idle" =>
        LET want == Requested(sel.given) IN
        /\ sel.dicts[1] = sel.given
        /\ Len(sel.queries) <= 2
        /\ \A k \in 1..Len(sel.queries) :
              /\ "res" \notin DOMAIN sel.queries[k]
              /\ sel.queries[k]["suffix"] = (IF "suffix" \in DOMAIN sel.given
                                               THEN sel.given["suffix"] ELSE "T1w")
        /\ want # "native"
              => /\ sel.pc \in {"direct", "done"}
                 /\ sel.pc = "done" => Queried = <<want>> /\ sel.result = Answer(want)
        /\ want = "native"
              => /\ sel.pc # "direct"
                 /\ Queried \in {<<>>, <<"2">>, <<"2", "1">>}
                 /\ Queried = <<"2", "1">> <=> sel.pc # "res2" /\ sel.pc # "res1" /\ sel.store["2"] = "RuntimeError"
                 /\ sel.pc = "done"
                       => sel.result = (IF sel.store["2"] = "RuntimeError"
                                        THEN Answer("1") ELSE Answer("2"))

\* a call on a spec with 'res' native and a 'resolution' entry has queried
\* resolution 2, then resolution 1, and ended with the error of the second
\* query
C25_Witness ==
    /\ sel.pc = "done"
    /\ "res" \in DOMAIN sel.given /\ sel.given["res"] = "native"
    /\ "resolution" \in DOMAIN sel.given
    /\ Queried = <<"2", "1">>
    /\ sel.result.kind = "raise" /\ sel.result.type = "KeyError"

====
